---- MODULE Spec2Model ----
(***************************************************************************)
(* Payment aggregation (src/main.js): the pairwise-debt matrix M, with     *)
(* M[i][j] the amount person i owes person j, is read from a ledger sheet, *)
(* passed through matrixSubtractRedundancies and matrixMinimizePayments    *)
(* and written back under the ledger.                                      *)
(*                                                                         *)
(* Spec      the two matrix functions, called on every matrix of a bounded *)
(*           set (either the pipeline, or matrixMinimizePayments alone).   *)
(* FairSpec  Spec with the sequential execution of the loops as fairness.  *)
(* SpecMain  main(): readMatrix on a bounded set of sheets, the two matrix *)
(*           functions, writeMatrix.                                       *)
(***************************************************************************)
EXTENDS Integers, Sequences, FiniteSets

\* Bounds of the model.
NumPeople == 3      \* size N of the matrix
MaxTotal == 5       \* largest grand total of a matrix given to Spec
MaxPasses == 2      \* the count of while-body executions saturates here
MaxRows == 2        \* most ledger rows of a sheet of SpecMain
MaxOwe == 1         \* largest amount in one ledger cell of SpecMain

VARIABLES
    sheet,     \* the spreadsheet: [header, rows]
    ret,       \* what readMatrix returned: "matrix", "undefined", or "none" before the call
    log,       \* the messages given to Logger.log
    M,         \* the matrix the functions mutate in place
    raw,       \* the matrix as first given to the functions (history)
    entry,     \* which call started the run: "main", "subtract", "minimize"
    pc,        \* position of the run
    cur,       \* loop cursor: cell index i*N+j, or triple index (i*N+j)*N+k
    passes,    \* executions of the body of the while loop, saturating at MaxPasses
    calls,     \* the functions invoked so far
    out        \* what writeMatrix wrote, <<>> before

vars == <<sheet, ret, log, M, raw, entry, pc, cur, passes, calls, out>>

People == 0 .. NumPeople - 1

First(S) == CHOOSE x \in S : \A y \in S : x <= y

Min(a, b) == IF a <= b THEN a ELSE b

ZeroMatrix == [i \in People |-> [j \in People |-> 0]]

-----------------------------------------------------------------------------
\* matrixSubtractRedundancies

\* One iteration of the inner loop body, lines 61-70.
SubtractPairNoZero(m, i, j) ==
    IF m[i][j] = m[j][i]
    THEN [m EXCEPT ![i][j] = 0, ![j][i] = 0]
    ELSE IF m[i][j] > m[j][i]
    THEN [m EXCEPT ![i][j] = m[i][j] - m[j][i], ![j][i] = 0]
    ELSE [m EXCEPT ![j][i] = m[j][i] - m[i][j]]

SubtractPairSwapped(m, i, j) ==
    IF m[i][j] = m[j][i]
    THEN [m EXCEPT ![i][j] = 0, ![j][i] = 0]
    ELSE IF m[i][j] > m[j][i]
    THEN [m EXCEPT ![i][j] = m[i][j] - m[j][i], ![j][i] = 0]
    ELSE [m EXCEPT ![i][j] = m[i][j] - m[j][i], ![j][i] = 0]

SubtractPairKeepSmaller(m, i, j) ==
    IF m[i][j] = m[j][i]
    THEN [m EXCEPT ![i][j] = 0, ![j][i] = 0]
    ELSE IF m[i][j] > m[j][i]
    THEN [m EXCEPT ![j][i] = 0]
    ELSE [m EXCEPT ![i][j] = 0]

SubtractPair(m, i, j) ==
    IF m[i][j] = m[j][i]
    THEN [m EXCEPT ![i][j] = 0, ![j][i] = 0]
    ELSE IF m[i][j] > m[j][i]
    THEN [m EXCEPT ![i][j] = m[i][j] - m[j][i], ![j][i] = 0]
    ELSE [m EXCEPT ![j][i] = m[j][i] - m[i][j], ![i][j] = 0]

\* The cells (i, j), j > i, the two for loops have still to visit from cell c on.
PendingPairs(c) ==
    {x \in c .. NumPeople * NumPeople - 1 : x % NumPeople > x \div NumPeople}

RECURSIVE SubtractFrom(_, _)
SubtractFrom(m, c) ==
    IF PendingPairs(c) = {} THEN m
    ELSE LET x == First(PendingPairs(c))
         IN  SubtractFrom(SubtractPair(m, x \div NumPeople, x % NumPeople), x + 1)

\* The function as a whole.
matrixSubtractRedundancies(m) == SubtractFrom(m, 0)

-----------------------------------------------------------------------------
\* matrixRemainingPaymentsToMinimize and matrixMinimizePayments

TripleI(t) == t \div (NumPeople * NumPeople)
TripleJ(t) == (t \div NumPeople) % NumPeople
TripleK(t) == t % NumPeople

\* The condition of lines 85 and 105-106.
IsTriangle(m, i, j, k) ==
    /\ i # j /\ j # k /\ i # k
    /\ m[i][j] > 0 /\ m[j][k] > 0 /\ m[i][k] > 0

RemainingOrdered(m) ==
    \E i \in People, j \in People, k \in People :
        i < j /\ j < k /\ IsTriangle(m, i, j, k)

RemainingNonNegative(m) ==
    \E i \in People, j \in People, k \in People :
        /\ i # j /\ j # k /\ i # k
        /\ m[i][j] >= 0 /\ m[j][k] >= 0 /\ m[i][k] >= 0

matrixRemainingPaymentsToMinimize(m) ==
    \E i \in People, j \in People, k \in People : IsTriangle(m, i, j, k)

\* The body of the innermost if, lines 108-120.
CollapseNoCompensation(m, i, j, k) ==
    IF m[i][j] = m[j][k]
    THEN [m EXCEPT ![i][j] = 0, ![j][k] = 0]
    ELSE IF m[i][j] > m[j][k]
    THEN [m EXCEPT ![i][j] = m[i][j] - m[j][k], ![j][k] = 0]
    ELSE [m EXCEPT ![j][k] = m[j][k] - m[i][j], ![i][j] = 0]

CollapseNoDecrement(m, i, j, k) ==
    IF m[i][j] = m[j][k]
    THEN [m EXCEPT ![i][k] = m[i][k] + m[i][j], ![i][j] = 0, ![j][k] = 0]
    ELSE IF m[i][j] > m[j][k]
    THEN [m EXCEPT ![i][k] = m[i][k] + m[j][k], ![j][k] = 0]
    ELSE [m EXCEPT ![i][k] = m[i][k] + m[i][j], ![i][j] = 0]

CollapseTransposed(m, i, j, k) ==
    IF m[i][j] = m[j][k]
    THEN [m EXCEPT ![k][i] = m[k][i] + m[i][j], ![i][j] = 0, ![j][k] = 0]
    ELSE IF m[i][j] > m[j][k]
    THEN [m EXCEPT ![k][i] = m[k][i] + m[j][k],
                   ![i][j] = m[i][j] - m[j][k], ![j][k] = 0]
    ELSE [m EXCEPT ![k][i] = m[k][i] + m[i][j],
                   ![j][k] = m[j][k] - m[i][j], ![i][j] = 0]

Collapse(m, i, j, k) ==
    IF m[i][j] = m[j][k]
    THEN [m EXCEPT ![i][k] = m[i][k] + m[i][j], ![i][j] = 0, ![j][k] = 0]
    ELSE IF m[i][j] > m[j][k]
    THEN [m EXCEPT ![i][k] = m[i][k] + m[j][k],
                   ![i][j] = m[i][j] - m[j][k], ![j][k] = 0]
    ELSE [m EXCEPT ![i][k] = m[i][k] + m[i][j],
                   ![j][k] = m[j][k] - m[i][j], ![i][j] = 0]

\* The triples the three for loops have still to visit from triple t on and
\* that pass the test of lines 105-106 on m. The loops change m only at such a
\* triple, so the first of them is the next one collapsed.
PendingTriangles(m, t) ==
    {x \in t .. NumPeople * NumPeople * NumPeople - 1 :
        IsTriangle(m, TripleI(x), TripleJ(x), TripleK(x))}

\* One execution of the body of the while loop from triple t on, lines 102-125.
RECURSIVE ScanFrom(_, _)
ScanFrom(m, t) ==
    IF PendingTriangles(m, t) = {} THEN m
    ELSE LET x == First(PendingTriangles(m, t))
         IN  ScanFrom(Collapse(m, TripleI(x), TripleJ(x), TripleK(x)), x + 1)

\* The function as a whole.
RECURSIVE matrixMinimizePayments(_)
matrixMinimizePayments(m) ==
    IF matrixRemainingPaymentsToMinimize(m)
    THEN matrixMinimizePayments(ScanFrom(m, 0))
    ELSE m

-----------------------------------------------------------------------------
\* The matrices Spec starts from: zero diagonal (the two functions never read
\* or write a cell [i][i]), amounts >= 0, grand total at most MaxTotal.

NumOffDiag == NumPeople * (NumPeople - 1)

\* The sequences of n amounts whose sum is at most t.
RECURSIVE Amounts(_, _)
Amounts(n, t) ==
    IF n = 0 THEN {<<>>}
    ELSE UNION {{Append(s, v) : s \in Amounts(n - 1, t - v)} : v \in 0 .. t}

OffDiagIndex(i, j) == i * (NumPeople - 1) + (IF j > i THEN j - 1 ELSE j) + 1

MatrixOf(s) ==
    [i \in People |-> [j \in People |-> IF i = j THEN 0 ELSE s[OffDiagIndex(i, j)]]]

RawMatrices == {MatrixOf(s) : s \in Amounts(NumOffDiag, MaxTotal)}

NoSheet == [header |-> <<>>, rows |-> <<>>]

Init ==
    /\ sheet = NoSheet
    /\ ret = "matrix"
    /\ log = <<>>
    /\ M \in RawMatrices
    /\ raw = M
    /\ entry \in {"subtract", "minimize"}
    /\ pc = entry
    /\ cur = 0
    /\ passes = 0
    /\ calls = {IF entry = "subtract" THEN "matrixSubtractRedundancies"
                                      ELSE "matrixMinimizePayments"}
    /\ out = <<>>

\* Lines 59-72: the next pair of the two for loops.
SubtractStep ==
    /\ pc = "subtract"
    /\ PendingPairs(cur) # {}
    /\ LET x == First(PendingPairs(cur))
       IN  /\ M' = SubtractPair(M, x \div NumPeople, x % NumPeople)
           /\ cur' = x + 1
    /\ UNCHANGED <<sheet, ret, log, raw, entry, pc, passes, calls, out>>

\* Line 73, and the call of matrixMinimizePayments on the result (line 168).
SubtractReturn ==
    /\ pc = "subtract"
    /\ PendingPairs(cur) = {}
    /\ pc' = "minimize"
    /\ cur' = 0
    /\ calls' = calls \cup {"matrixMinimizePayments"}
    /\ UNCHANGED <<sheet, ret, log, M, raw, entry, passes, out>>

\* Line 101, the condition true: the body starts.
WhileEnter ==
    /\ pc = "minimize"
    /\ matrixRemainingPaymentsToMinimize(M)
    /\ pc' = "scan"
    /\ cur' = 0
    /\ passes' = IF passes < MaxPasses THEN passes + 1 ELSE passes
    /\ UNCHANGED <<sheet, ret, log, M, raw, entry, calls, out>>

\* Line 101, the condition false, and line 127.
MinimizeReturn ==
    /\ pc = "minimize"
    /\ ~matrixRemainingPaymentsToMinimize(M)
    /\ pc' = "done"
    /\ UNCHANGED <<sheet, ret, log, M, raw, entry, cur, passes, calls, out>>

\* Lines 102-120: the for loops run on to the next triangle and collapse it.
CollapseStep ==
    /\ pc = "scan"
    /\ PendingTriangles(M, cur) # {}
    /\ LET x == First(PendingTriangles(M, cur))
       IN  /\ M' = Collapse(M, TripleI(x), TripleJ(x), TripleK(x))
           /\ cur' = x + 1
    /\ UNCHANGED <<sheet, ret, log, raw, entry, pc, passes, calls, out>>

\* Lines 102-125: the for loops run to their end, back to the while test.
ScanEnd ==
    /\ pc = "scan"
    /\ PendingTriangles(M, cur) = {}
    /\ pc' = "minimize"
    /\ cur' = 0
    /\ UNCHANGED <<sheet, ret, log, M, raw, entry, passes, calls, out>>

Next ==
    \/ SubtractStep
    \/ SubtractReturn
    \/ WhileEnter
    \/ MinimizeReturn
    \/ CollapseStep
    \/ ScanEnd

Spec == Init /\ [][Next]_vars

\* The loops are sequential code: a step that can be taken is taken.
FairSpec == Spec /\ WF_vars(Next)

-----------------------------------------------------------------------------
\* main: readMatrix, the two matrix functions, writeMatrix.

\* A header cell is modelled by which of the two tests of lines 22 and 28 its
\* lower-cased text passes: "owes", "who paid", or neither ("item").
OwesColumns == [c \in 1 .. NumPeople |-> "owes"]

Headers == {<<"item", "who paid">> \o OwesColumns, <<"item">> \o OwesColumns}

MaxCell == IF MaxOwe > NumPeople - 1 THEN MaxOwe ELSE NumPeople - 1

\* The ledger rows under header h: a person under "who paid", an amount under
\* each "owes".
LedgerRows(h) ==
    {r \in [1 .. Len(h) -> 0 .. MaxCell] :
        \A c \in 1 .. Len(h) :
            CASE h[c] = "item" -> r[c] = 0
              [] h[c] = "who paid" -> r[c] \in People
              [] OTHER -> r[c] <= MaxOwe}

RECURSIVE RowsUpTo(_, _)
RowsUpTo(h, n) ==
    IF n = 0 THEN {<<>>}
    ELSE RowsUpTo(h, n - 1) \cup
         {Append(s, r) : s \in {x \in RowsUpTo(h, n - 1) : Len(x) = n - 1},
                         r \in LedgerRows(h)}

Sheets == UNION {{[header |-> h, rows |-> rs] : rs \in RowsUpTo(h, MaxRows)} : h \in Headers}

\* range.getValues(), line 9: the header row and the ledger rows.
Values(s) == <<s.header>> \o s.rows

\* Lines 21-31, with the columns counted from 0 as in the code.
numPeople(h) == Cardinality({c \in 1 .. Len(h) : h[c] = "owes"})

firstOwesCol(h) ==
    IF \E c \in 1 .. Len(h) : h[c] = "owes"
    THEN First({c \in 1 .. Len(h) : h[c] = "owes"}) - 1
    ELSE -1

whoPaidCol(h) ==
    IF \E c \in 1 .. Len(h) : h[c] = "who paid"
    THEN (CHOOSE c \in 1 .. Len(h) :
             /\ h[c] = "who paid"
             /\ \A d \in 1 .. Len(h) : h[d] = "who paid" => d <= c) - 1
    ELSE -1

\* Lines 39-48: cell [debtor][debtee] after the first n ledger rows.
RECURSIVE Accumulated(_, _, _, _)
Accumulated(s, n, debtor, debtee) ==
    IF n = 0 THEN 0
    ELSE Accumulated(s, n - 1, debtor, debtee) +
         (IF s.rows[n][whoPaidCol(s.header) + 1] = debtee
          THEN s.rows[n][firstOwesCol(s.header) + debtor + 1]
          ELSE 0)

rawPayments(s) ==
    [debtor \in People |-> [debtee \in People |->
        Accumulated(s, Len(s.rows), debtor, debtee)]]

InitMain ==
    /\ sheet \in Sheets
    /\ ret = "none"
    /\ log = <<>>
    /\ M = ZeroMatrix
    /\ raw = ZeroMatrix
    /\ entry = "main"
    /\ pc = "main"
    /\ cur = 0
    /\ passes = 0
    /\ calls = {}
    /\ out = <<>>

\* Lines 15-18.
ReadMatrixNoPayments ==
    /\ pc = "main"
    /\ Len(Values(sheet)) = 1
    /\ log' = Append(log, "ERROR: no payments found")
    /\ ret' = "undefined"
    /\ pc' = "read"
    /\ calls' = calls \cup {"readMatrix"}
    /\ UNCHANGED <<sheet, M, raw, entry, cur, passes, out>>

\* Lines 33-36.
ReadMatrixNoWhoPaid ==
    /\ pc = "main"
    /\ Len(Values(sheet)) # 1
    /\ whoPaidCol(sheet.header) = -1
    /\ log' = Append(log, "ERROR: could not find WHO PAID column")
    /\ ret' = "undefined"
    /\ pc' = "read"
    /\ calls' = calls \cup {"readMatrix"}
    /\ UNCHANGED <<sheet, M, raw, entry, cur, passes, out>>

\* Lines 39-50.
ReadMatrixOk ==
    /\ pc = "main"
    /\ Len(Values(sheet)) # 1
    /\ whoPaidCol(sheet.header) # -1
    /\ numPeople(sheet.header) = NumPeople
    /\ M' = rawPayments(sheet)
    /\ raw' = M'
    /\ ret' = "matrix"
    /\ pc' = "read"
    /\ calls' = calls \cup {"readMatrix"}
    /\ UNCHANGED <<sheet, log, entry, cur, passes, out>>

\* Line 168: main hands whatever readMatrix returned to
\* matrixSubtractRedundancies, whose line 59 reads matrix.length and throws a
\* TypeError on undefined.
CallSubtract ==
    /\ pc = "read"
    /\ calls' = calls \cup {"matrixSubtractRedundancies"}
    /\ pc' = IF ret = "undefined" THEN "TypeError" ELSE "subtract"
    /\ cur' = 0
    /\ UNCHANGED <<sheet, ret, log, M, raw, entry, passes, out>>

\* Lines 134-165, called at line 169.
WriteMatrix ==
    /\ pc = "done"
    /\ entry = "main"
    /\ pc' = "written"
    /\ calls' = calls \cup {"writeMatrix"}
    /\ out' = [startRow |-> Len(Values(sheet)) + 2,
               xRangeValues |-> <<[i \in 1 .. NumPeople |-> <<i - 1>>]>>,
               yRangeValues |-> [i \in 1 .. NumPeople |-> <<i - 1>>],
               data |-> M]
    /\ UNCHANGED <<sheet, ret, log, M, raw, entry, cur, passes>>

NextMain ==
    \/ ReadMatrixNoPayments
    \/ ReadMatrixNoWhoPaid
    \/ ReadMatrixOk
    \/ CallSubtract
    \/ SubtractStep
    \/ SubtractReturn
    \/ WhileEnter
    \/ MinimizeReturn
    \/ CollapseStep
    \/ ScanEnd
    \/ WriteMatrix

SpecMain == InitMain /\ [][NextMain]_vars

-----------------------------------------------------------------------------
\* Quantities the properties are stated in.

RECURSIVE SumRow(_, _, _)
SumRow(m, p, n) == IF n = 0 THEN 0 ELSE SumRow(m, p, n - 1) + m[p][n - 1]

RECURSIVE SumCol(_, _, _)
SumCol(m, p, n) == IF n = 0 THEN 0 ELSE SumCol(m, p, n - 1) + m[n - 1][p]

netBalance(m, p) == SumRow(m, p, NumPeople) - SumCol(m, p, NumPeople)

RECURSIVE SumRows(_, _)
SumRows(m, n) == IF n = 0 THEN 0 ELSE SumRows(m, n - 1) + SumRow(m, n - 1, NumPeople)

GrandTotal(m) == SumRows(m, NumPeople)

Transfers(m) == Cardinality({c \in People \X People : c[1] # c[2] /\ m[c[1]][c[2]] # 0})

HasTriangle(m) ==
    \E i \in People, j \in People, k \in People :
        /\ i # j /\ j # k /\ i # k
        /\ m[i][j] > 0 /\ m[j][k] > 0 /\ m[i][k] > 0

\* The raw matrix has a pair of mutual debts: the eliminator has something to cancel.
MutualDebt == \E i \in People, j \in People : i # j /\ raw[i][j] > 0 /\ raw[j][i] > 0

\* matrixSubtractRedundancies has just returned.
Eliminated == pc = "minimize" /\ passes = 0 /\ entry # "minimize"

\* The step about to be taken is a triangle collapse.
AtCollapse == pc = "scan" /\ PendingTriangles(M, cur) # {}

-----------------------------------------------------------------------------
\* C1. Net-balance conservation: in every state of the run (after each pair
\* cancellation, after each triangle collapse, in the returned matrix) every
\* participant's net balance, row sum minus column sum, is what it was in the
\* raw matrix.
NetBalanceConserved == \A p \in People : netBalance(M, p) = netBalance(raw, p)

\* A run of the pipeline that cancelled a mutual debt and collapsed a triangle
\* has returned.
NetBalanceWitness ==
    /\ pc = "done" /\ entry = "subtract" /\ passes = 1
    /\ MutualDebt /\ M # raw

\* C2. No-triangle postcondition: when matrixMinimizePayments has returned, no
\* three pairwise-distinct i, j, k have M[i][j], M[j][k] and M[i][k] all positive,
\* whether or not the matrix went through matrixSubtractRedundancies first.
NoTriangleOnReturn == pc = "done" => ~HasTriangle(M)

\* matrixMinimizePayments, given a matrix that had a triangle and a mutual debt
\* and was not eliminated first, has returned.
NoTriangleWitness ==
    /\ pc = "done" /\ entry = "minimize" /\ passes >= 1
    /\ HasTriangle(raw) /\ MutualDebt

\* C3. Eliminator contract: when matrixSubtractRedundancies has returned, for
\* every pair i # j the entry M[i][j] is raw[i][j] - raw[j][i] where that is
\* positive and 0 otherwise, so the smaller of M[i][j] and M[j][i] is 0.
EliminatorContract ==
    Eliminated =>
        \A i \in People, j \in People :
            i # j =>
                /\ M[i][j] = (IF raw[i][j] > raw[j][i] THEN raw[i][j] - raw[j][i] ELSE 0)
                /\ Min(M[i][j], M[j][i]) = 0

\* The eliminator has returned on a matrix with an unequal mutual debt and an
\* equal one.
EliminatorWitness ==
    /\ Eliminated
    /\ \E i \in People, j \in People :
           i # j /\ raw[j][i] > 0 /\ raw[i][j] > raw[j][i] /\ M[i][j] > 0
    /\ \E i \in People, j \in People : i # j /\ raw[i][j] > 0 /\ raw[i][j] = raw[j][i]

\* C4. Termination: matrixMinimizePayments eventually returns, for every
\* matrix of non-negative integers.
Terminates == <>(pc = "done")

\* The function has returned after its while loop ran its body.
TerminatesWitness == pc = "done" /\ passes >= 1 /\ GrandTotal(M) < GrandTotal(raw)

\* C5. Total-flow monotonicity: no step increases the grand total of the
\* entries, and a triangle collapse at (i, j, k) lowers it by exactly
\* min(M[i][j], M[j][k]), which is positive.
TotalFlowMonotone ==
    [][/\ GrandTotal(M') <= GrandTotal(M)
       /\ AtCollapse =>
             LET x == First(PendingTriangles(M, cur))
                 a == M[TripleI(x)][TripleJ(x)]
                 b == M[TripleJ(x)][TripleK(x)]
             IN  /\ Min(a, b) > 0
                 /\ GrandTotal(M') = GrandTotal(M) - Min(a, b)]_vars

\* In a run of the pipeline a cancellation and then a collapse have each
\* lowered the grand total.
TotalFlowWitness ==
    /\ pc = "scan" /\ cur > 0 /\ entry = "subtract" /\ MutualDebt
    /\ GrandTotal(M) < GrandTotal(matrixSubtractRedundancies(raw))
    /\ GrandTotal(matrixSubtractRedundancies(raw)) < GrandTotal(raw)

\* C6. Idempotence of the pipeline: the matrix R the pipeline returns has at
\* most one non-zero entry per unordered pair, and the pipeline applied to R
\* returns R with every entry unchanged.
PipelineIdempotent ==
    (pc = "done" /\ entry = "subtract") =>
        /\ \A i \in People, j \in People : i # j => (M[i][j] = 0 \/ M[j][i] = 0)
        /\ matrixSubtractRedundancies(M) = M
        /\ matrixMinimizePayments(matrixSubtractRedundancies(M)) = M

\* The pipeline has returned a matrix it changed both by cancelling and by
\* collapsing, and in which a debt remains.
PipelineIdempotentWitness ==
    /\ pc = "done" /\ entry = "subtract" /\ passes = 1 /\ MutualDebt
    /\ Transfers(M) >= 1 /\ Transfers(M) < Transfers(raw)

\* C7. Minimality of the settlement set: the matrix the pipeline returns has
\* the fewest non-zero entries of all non-negative matrices that give every
\* participant the net balance the raw matrix gives.
SettlementMinimal ==
    (pc = "done" /\ entry = "subtract") =>
        \A X \in RawMatrices :
            (\A p \in People : netBalance(X, p) = netBalance(raw, p))
                => Transfers(M) <= Transfers(X)

\* C8. Adapter error aborts before the core: once readMatrix has reported an
\* error and returned no matrix, none of matrixSubtractRedundancies,
\* matrixMinimizePayments and writeMatrix is invoked.
ErrorAbortsBeforeCore ==
    ret = "undefined" =>
        calls \cap {"matrixSubtractRedundancies", "matrixMinimizePayments",
                    "writeMatrix"} = {}

\* C9. Non-negativity: from a raw matrix of entries >= 0, every entry is >= 0
\* in every state of the run.
NonNegative == \A i \in People, j \in People : M[i][j] >= 0

\* An unequal mutual debt was cancelled, and a triangle collapsed whose first
\* two edges were unequal.
NonNegativeWitness ==
    /\ pc = "done" /\ passes >= 1
    /\ \E i \in People, j \in People : i < j /\ raw[i][j] > 0 /\ raw[i][j] < raw[j][i]
    /\ GrandTotal(M) + 2 <= GrandTotal(raw)

\* C10. Single-pass fixed point: no step turns an entry that is not positive
\* into a positive one; when the for loops of matrixMinimizePayments have run
\* to their end no triangle is left; the body of the while loop runs at most once.
SinglePassInv ==
    /\ passes <= 1
    /\ (pc = "minimize" /\ passes >= 1) => ~HasTriangle(M)

SinglePassFixedPoint ==
    /\ []SinglePassInv
    /\ [][\A i \in People, j \in People : M[i][j] <= 0 => M'[i][j] <= 0]_vars

\* One execution of the body collapsed at least two triangles and the while
\* test is about to be made again.
SinglePassWitness ==
    /\ pc = "minimize" /\ passes = 1
    /\ Transfers(M) + 2 <= Transfers(raw)
    /\ entry = "minimize"

====
